---------------------------- MODULE Spec2Model ----------------------------
(***************************************************************************)
(* Model of the RA/Dec coordinate converter.                               *)
(*                                                                         *)
(* The repository holds two implementations of ra_dec_converter:           *)
(*   src/python/coordinate_parser.py  (grammars 'hmsdms', 'degrees',       *)
(*                                     'casa'; split / parse / format)     *)
(*   src/coordinate_parser.py         (grammars 'hmsdms', 'degrees'; an    *)
(*                                     ordered list of regular             *)
(*                                     expressions)                        *)
(* Definitions of the first keep the source's names; definitions of the    *)
(* second carry the suffix _pat (it is driven by its `patterns` list).     *)
(*                                                                         *)
(* Text is a sequence of one-character strings.  Numbers are exact         *)
(* decimals: a parsed token is a record [neg, mag] with mag counted in     *)
(* units of 1/Scale, so that -0.0 stays distinct from 0.0 as it does for   *)
(* a Python float; angles are counted in units of 1/(3600*Scale) degree.   *)
(* Binary rounding error of float arithmetic is not modelled.              *)
(***************************************************************************)
EXTENDS Integers, Sequences, FiniteSets, TLC

(***************************************************************************)
(* Bounds of the model.                                                    *)
(***************************************************************************)
\* largest number of digits after the decimal point of an input token
MaxFrac == 2
\* integer parts of tokens are counted up to FloatCap: every range the code
\* tests lies below it, so that all larger values are rejected alike
FloatCap == 500

(***************************************************************************)
(* Characters and strings.                                                 *)
(***************************************************************************)
Chars(s) == [i \in 1..Len(s) |-> SubSeq(s, i, i)]

Digit == {"0", "1", "2", "3", "4", "5", "6", "7", "8", "9"}
Space == {" ", "\t", "\n", "\r", "\f"}
SignCh == {"+", "-"}
Alphabet == Digit \cup Space \cup SignCh \cup
            {":", ",", ".", "h", "H", "d", "D", "m", "M", "s", "S", "'", "\"",
             "J", "j", "E", "e", "_", "x"}
\* the regular expression atom '.': every character but the newline
Dot == Alphabet \ {"\n"}
\* the regular expression class \w, as far as the alphabet goes
WordCh == Digit \cup {"h", "H", "d", "D", "m", "M", "s", "S", "J", "j", "E", "e", "_", "x"}

DigitVal(c) == CASE c = "0" -> 0 [] c = "1" -> 1 [] c = "2" -> 2 [] c = "3" -> 3
                 [] c = "4" -> 4 [] c = "5" -> 5 [] c = "6" -> 6 [] c = "7" -> 7
                 [] c = "8" -> 8 [] c = "9" -> 9
DigitCh(n) == CASE n = 0 -> "0" [] n = 1 -> "1" [] n = 2 -> "2" [] n = 3 -> "3"
                [] n = 4 -> "4" [] n = 5 -> "5" [] n = 6 -> "6" [] n = 7 -> "7"
                [] n = 8 -> "8" [] n = 9 -> "9"

RECURSIVE Pow10(_)
Pow10(n) == IF n = 0 THEN 1 ELSE 10 * Pow10(n - 1)

\* units per 1 of a parsed token
Scale == Pow10(MaxFrac)

IndexOf(s, set) ==
    IF \E i \in 1..Len(s) : s[i] \in set
    THEN CHOOSE i \in 1..Len(s) : s[i] \in set /\ \A j \in 1..(i - 1) : s[j] \notin set
    ELSE 0

Tail2(s, i) == SubSeq(s, i, Len(s))

\* str.strip()
str_strip(s) ==
    IF \A i \in 1..Len(s) : s[i] \in Space THEN <<>>
    ELSE LET a == CHOOSE i \in 1..Len(s) :
                     s[i] \notin Space /\ \A j \in 1..(i - 1) : s[j] \in Space
             b == CHOOSE i \in 1..Len(s) :
                     s[i] \notin Space /\ \A j \in (i + 1)..Len(s) : s[j] \in Space
         IN SubSeq(s, a, b)

\* str.replace(old, new) for one-character old
str_replace(s, old, new) == [i \in 1..Len(s) |-> IF s[i] = old THEN new ELSE s[i]]

\* re.sub(r'[set]', new, s)
re_sub_class(s, set, new) == [i \in 1..Len(s) |-> IF s[i] \in set THEN new ELSE s[i]]

\* length of the run of characters of set that starts at position i
RunLen(s, i, set) ==
    CHOOSE n \in 0..(Len(s) - i + 1) :
        /\ \A k \in 0..(n - 1) : s[i + k] \in set
        /\ (i + n > Len(s) \/ s[i + n] \notin set)

\* re.split(r'[set]+', s): the pieces between maximal runs of separators,
\* empty leading and trailing pieces included
RECURSIVE re_split(_, _)
re_split(s, set) ==
    LET i == IndexOf(s, set)
    IN IF i = 0 THEN <<s>>
       ELSE <<SubSeq(s, 1, i - 1)>> \o re_split(Tail2(s, i + RunLen(s, i, set)), set)

\* str.split(): the non-empty pieces between runs of whitespace
str_split(s) == SelectSeq(re_split(s, Space), LAMBDA t : t # <<>>)

(***************************************************************************)
(* A backtracking matcher for the anchored patterns of the two files.  A   *)
(* pattern is a sequence of items [cls, lo, hi, lazy, grp]: between lo and *)
(* hi characters of cls (hi = -1: unbounded), greedy unless lazy, captured *)
(* into group grp (0: not captured).  re_match yields the sequence of      *)
(* per-item lengths of the match Python's re finds, or NoMatch.            *)
(***************************************************************************)
NoMatch == <<-1>>

It(cls, lo, hi, grp) == [cls |-> cls, lo |-> lo, hi |-> hi, lazy |-> FALSE, grp |-> grp]
Lazy(cls, lo, hi, grp) == [cls |-> cls, lo |-> lo, hi |-> hi, lazy |-> TRUE, grp |-> grp]

\* '$' matches at the end and before a newline that ends the string
AtEnd(s, i) == i = Len(s) + 1 \/ (i = Len(s) /\ s[i] = "\n")

RECURSIVE re_items(_, _, _, _)
RECURSIVE re_try(_, _, _, _, _, _, _)
re_try(pat, k, s, i, n, last, step) ==
    LET r == re_items(pat, k + 1, s, i + n)
    IN IF r # NoMatch THEN <<n>> \o r
       ELSE IF n = last THEN NoMatch
       ELSE re_try(pat, k, s, i, n + step, last, step)

re_items(pat, k, s, i) ==
    IF k > Len(pat) THEN (IF AtEnd(s, i) THEN <<>> ELSE NoMatch)
    ELSE LET it == pat[k]
             run == RunLen(s, i, it.cls)
             avail == IF it.hi >= 0 /\ it.hi < run THEN it.hi ELSE run
         IN IF avail < it.lo THEN NoMatch
            ELSE IF it.lazy THEN re_try(pat, k, s, i, it.lo, avail, 1)
            ELSE re_try(pat, k, s, i, avail, it.lo, -1)

re_match(pat, s) == re_items(pat, 1, s, 1)

RECURSIVE SumTo(_, _)
SumTo(lens, k) == IF k = 0 THEN 0 ELSE lens[k] + SumTo(lens, k - 1)

\* m.group(g): the text of the items captured into group g
re_group(pat, s, lens, g) ==
    LET ks == {k \in 1..Len(pat) : pat[k].grp = g}
    IN IF ks = {} THEN <<>>
       ELSE LET a == CHOOSE k \in ks : \A j \in ks : k <= j
                b == CHOOSE k \in ks : \A j \in ks : k >= j
            IN SubSeq(s, SumTo(lens, a - 1) + 1, SumTo(lens, b))

(***************************************************************************)
(* float(token).  Accepts [sign] digits [. digits] with a digit on at      *)
(* least one side of the point, surrounded by optional whitespace.         *)
(* Exponent notation, inf/nan and digit-group underscores are outside the  *)
(* inputs of this model.  val is [neg, mag] with mag in units of 1/Scale;  *)
(* digits beyond MaxFrac are outside the bounds of the model (the inputs   *)
(* never carry them) and are truncated; integer parts saturate at          *)
(* FloatCap.                                                               *)
(***************************************************************************)
RECURSIVE DigitsVal(_)
DigitsVal(s) == IF s = <<>> THEN 0
                ELSE 10 * DigitsVal(SubSeq(s, 1, Len(s) - 1)) + DigitVal(s[Len(s)])

FracVal(s) ==
    LET kept(t) == DigitsVal(t) * Pow10(MaxFrac - Len(t))
    IN kept(IF Len(s) > MaxFrac THEN SubSeq(s, 1, MaxFrac) ELSE s)

float(tok) ==
    LET digits(neg, ip, fp) ==
            IF /\ \A i \in 1..Len(ip) : ip[i] \in Digit
               /\ \A i \in 1..Len(fp) : fp[i] \in Digit
               /\ Len(ip) + Len(fp) > 0
            THEN [ok |-> TRUE, neg |-> neg,
                  mag |-> (IF Len(ip) > 3 \/ DigitsVal(ip) > FloatCap THEN FloatCap
                           ELSE DigitsVal(ip)) * Scale + FracVal(fp)]
            ELSE [ok |-> FALSE, neg |-> FALSE, mag |-> 0]
        point(neg, u, p) ==
            digits(neg, IF p = 0 THEN u ELSE SubSeq(u, 1, p - 1),
                   IF p = 0 THEN <<>> ELSE Tail2(u, p + 1))
        unsigned(neg, u) == point(neg, u, IndexOf(u, {"."}))
        text(t) == unsigned(t # <<>> /\ t[1] = "-",
                            IF t # <<>> /\ t[1] \in SignCh THEN Tail2(t, 2) ELSE t)
    IN text(str_strip(tok))

(***************************************************************************)
(* Float values: [neg, mag].  Sums follow IEEE signed zeros: a sum that is *)
(* zero is -0.0 only when both terms are.                                  *)
(***************************************************************************)
ToInt(v) == IF v.neg THEN 0 - v.mag ELSE v.mag
Abs(x) == IF x < 0 THEN 0 - x ELSE x
FAdd(a, b) ==
    LET sum(x) == IF x # 0 THEN [neg |-> x < 0, mag |-> Abs(x)]
                  ELSE [neg |-> a.neg /\ b.neg, mag |-> 0]
    IN sum(ToInt(a) + ToInt(b))
FScale(v, k) == [neg |-> v.neg, mag |-> v.mag * k]
FNeg(v) == [neg |-> ~v.neg, mag |-> v.mag]
Zero == [neg |-> FALSE, mag |-> 0]

\* one degree (or hour) and its bounds, in units of 1/(3600*Scale)
Unit == 3600 * Scale

(***************************************************************************)
(* src/python/coordinate_parser.py                                         *)
(***************************************************************************)
\* determine_precision: digits after the last '.', 0 without a '.'
determine_precision(value_str) ==
    IF \A i \in 1..Len(value_str) : value_str[i] # "." THEN 0
    ELSE LET p == CHOOSE i \in 1..Len(value_str) :
                     value_str[i] = "." /\ \A j \in (i + 1)..Len(value_str) : value_str[j] # "."
         IN Len(value_str) - p

\* r'^(.*?)([+\-]\d.*)$'
SignSplitPattern ==
    <<Lazy(Dot, 0, -1, 1), It(SignCh, 1, 1, 2), It(Digit, 1, 1, 2), It(Dot, 0, -1, 2)>>

SplitOk(ra, dec) == [err |-> "", ra |-> ra, dec |-> dec]
SplitErr(e) == [err |-> e, ra |-> <<>>, dec |-> <<>>]

split_ra_dec(input_str0, in_fmt) ==
    LET two(parts, e) == IF Len(parts) = 2 THEN SplitOk(parts[1], parts[2]) ELSE SplitErr(e)
        groups(t, m) == SplitOk(str_strip(re_group(SignSplitPattern, t, m, 1)),
                                str_strip(re_group(SignSplitPattern, t, m, 2)))
        \* 'hmsdms': the sign-based regex, then the whitespace fallback
        by_sign(t, m, parts) == IF m # NoMatch THEN groups(t, m)
                                ELSE two(parts, "split_hmsdms")
        \* 'degrees': two tokens, then the sign-based fallback
        by_tokens(parts, t, m2) == IF Len(parts) = 2 THEN SplitOk(parts[1], parts[2])
                                   ELSE IF m2 # NoMatch THEN groups(t, m2)
                                   ELSE SplitErr("split_degrees")
        hmsdms(input_str, t) ==
            by_sign(t, re_match(SignSplitPattern, t), re_split(input_str, Space))
        split(input_str) ==
            IF in_fmt = "casa"
            THEN two(re_split(input_str, Space \cup {","}), "casa_tokens")
            ELSE IF in_fmt = "hmsdms"
            THEN hmsdms(input_str, str_replace(input_str, ",", " "))
            ELSE by_tokens(re_split(input_str, Space \cup {","}), input_str,
                           re_match(SignSplitPattern, input_str))
    IN split(str_strip(input_str0))

\* str.split(':')
RECURSIVE split_colon(_)
split_colon(s) ==
    LET i == IndexOf(s, {":"})
    IN IF i = 0 THEN <<s>> ELSE <<SubSeq(s, 1, i - 1)>> \o split_colon(Tail2(s, i + 1))

parse_ra_colon_strict(ra_str) ==
    LET three(parts) == IF Len(parts) # 3 THEN [err |-> "casa_ra", t |-> <<>>]
                        ELSE [err |-> "", t |-> parts]
    IN three(split_colon(ra_str))

UnitMarker == {"h", "H", "d", "D", "m", "M", "'", "s", "S", "\""}

\* mutant: a lone token taken as the seconds
parse_hms_or_dms_lone(coord_str) ==
    LET zero == <<"0">>
        fill(tokens) == IF Len(tokens) = 0 THEN <<zero, zero, zero>>
                        ELSE IF Len(tokens) = 1 THEN <<zero, zero, tokens[1]>>
                        ELSE IF Len(tokens) = 2 THEN <<tokens[1], tokens[2], zero>>
                        ELSE <<tokens[1], tokens[2], tokens[3]>>
        cleaned == re_sub_class(coord_str, UnitMarker, " ")
    IN fill(SelectSeq(re_split(str_strip(cleaned), Space \cup {":"}), LAMBDA t : t # <<>>))

parse_hms_or_dms(coord_str) ==
    LET zero == <<"0">>
        fill(tokens) == IF Len(tokens) = 0 THEN <<zero, zero, zero>>
                        ELSE IF Len(tokens) = 1 THEN <<tokens[1], zero, zero>>
                        ELSE IF Len(tokens) = 2 THEN <<tokens[1], tokens[2], zero>>
                        ELSE <<tokens[1], tokens[2], tokens[3]>>
        cleaned == re_sub_class(coord_str, UnitMarker, " ")
    IN fill(SelectSeq(re_split(str_strip(cleaned), Space \cup {":"}), LAMBDA t : t # <<>>))

ValOk(v) == [err |-> "", val |-> v]
ValErr(e) == [err |-> e, val |-> Zero]

InRange(v, lo, hi) == lo <= ToInt(v) /\ ToInt(v) < hi

\* mutant: the seconds divided by 60 like the minutes
hms_to_degrees_sec60(h, m, s) ==
    LET val(hh, mm, ss) ==
            IF ~hh.ok \/ ~mm.ok \/ ~ss.ok THEN ValErr("float")
            ELSE IF ~InRange(hh, 0, 24 * Scale) THEN ValErr("hours")
            ELSE IF ~InRange(mm, 0, 60 * Scale) THEN ValErr("minutes")
            ELSE IF ~InRange(ss, 0, 60 * Scale) THEN ValErr("seconds")
            ELSE ValOk(FAdd(FAdd(FScale(hh, 3600), FScale(mm, 60)), FScale(ss, 60)))
    IN val(float(h), float(m), float(s))

\* decimal hours, in units of 1/Unit hour
hms_to_degrees(h, m, s) ==
    LET val(hh, mm, ss) ==
            IF ~hh.ok \/ ~mm.ok \/ ~ss.ok THEN ValErr("float")
            ELSE IF ~InRange(hh, 0, 24 * Scale) THEN ValErr("hours")
            ELSE IF ~InRange(mm, 0, 60 * Scale) THEN ValErr("minutes")
            ELSE IF ~InRange(ss, 0, 60 * Scale) THEN ValErr("seconds")
            ELSE ValOk(FAdd(FAdd(FScale(hh, 3600), FScale(mm, 60)), ss))
    IN val(float(h), float(m), float(s))

\* signed degrees, in units of 1/Unit degree
dms_to_degrees(d, m, s) ==
    LET signed(minus, deg_val) == IF minus THEN FNeg(deg_val) ELSE deg_val
        val(minus, dd, mm, ss) ==
            IF ~dd.ok \/ ~mm.ok \/ ~ss.ok THEN ValErr("float")
            ELSE IF ~InRange(mm, 0, 60 * Scale) THEN ValErr("minutes")
            ELSE IF ~InRange(ss, 0, 60 * Scale) THEN ValErr("seconds")
            ELSE ValOk(signed(minus, FAdd(FAdd(FScale(dd, 3600), FScale(mm, 60)), ss)))
        digits(d_str) == IF d_str # <<>> THEN float(d_str)
                         ELSE [ok |-> TRUE, neg |-> FALSE, mag |-> 0]
        sign(d0) ==
            val(d0 # <<>> /\ d0[1] = "-",
                digits(IF d0 # <<>> /\ d0[1] \in SignCh THEN Tail2(d0, 2) ELSE d0),
                float(m), float(s))
    IN sign(str_strip(d))

\* r'^([+\-])(\d{1,3})\.(\d{1,2})\.(\d{1,2}(\.\d+)?)$': the optional group
\* taken, then left out
\* mutant: the sign optional, r'^([+\-]?)...'
CasaDecPattern_nosign ==
    <<It(SignCh, 0, 1, 1), It(Digit, 1, 3, 2), It({"."}, 1, 1, 0), It(Digit, 1, 2, 3),
      It({"."}, 1, 1, 0), It(Digit, 1, 2, 4), It({"."}, 1, 1, 4), It(Digit, 1, -1, 4)>>
CasaDecPattern ==
    <<It(SignCh, 1, 1, 1), It(Digit, 1, 3, 2), It({"."}, 1, 1, 0), It(Digit, 1, 2, 3),
      It({"."}, 1, 1, 0), It(Digit, 1, 2, 4), It({"."}, 1, 1, 4), It(Digit, 1, -1, 4)>>
CasaDecPatternShort == SubSeq(CasaDecPattern, 1, 6)

PrecOk(v, p) == [err |-> "", val |-> v, prec |-> p]
PrecErr(e) == [err |-> e, val |-> Zero, prec |-> 0]
\* the value val and the precision of the seconds text s it was read from,
\* val times k (15 for hours); the error of val if it has one
Angle(val, k, s) == IF val.err # "" THEN PrecErr(val.err)
                    ELSE PrecOk(FScale(val.val, k), determine_precision(s))

parse_casa_dotted_dec(dec_str0) ==
    LET signed(sign_char, v) == IF sign_char = <<"-">> THEN FNeg(v) ELSE v
        val(sign_char, dd, mmf, ssf, ss_str) ==
            PrecOk(signed(sign_char, FAdd(FAdd(FScale(dd, 3600), FScale(mmf, 60)), ssf)),
                   determine_precision(ss_str))
        fields(sign_char, d, mm, ss_str) ==
            val(sign_char, float(d), float(mm), float(ss_str), ss_str)
        groups(pat, dec_str, m) ==
            IF m = NoMatch THEN PrecErr("casa_dec")
            ELSE fields(re_group(pat, dec_str, m, 1), re_group(pat, dec_str, m, 2),
                        re_group(pat, dec_str, m, 3), re_group(pat, dec_str, m, 4))
        match(dec_str, m1) ==
            groups(IF m1 # NoMatch THEN CasaDecPattern ELSE CasaDecPatternShort, dec_str,
                   IF m1 # NoMatch THEN m1 ELSE re_match(CasaDecPatternShort, dec_str))
        pattern(dec_str) == match(dec_str, re_match(CasaDecPattern, dec_str))
    IN pattern(str_strip(dec_str0))

\* mutant: a token with two dots read as d.m.s
parse_degrees_token_dots(coord_str) ==
    LET colons(first, second) ==
            [i \in 1..Len(coord_str) |-> IF i \in {first, second} THEN ":" ELSE coord_str[i]]
        after(first) == colons(first, first + IndexOf(Tail2(coord_str, first + 1), {"."}))
        dotted == Cardinality({i \in 1..Len(coord_str) : coord_str[i] = "."}) >= 2
        dms(t) == Angle(dms_to_degrees(t[1], t[2], t[3]), 1, t[3])
        decimal(f) == IF ~f.ok THEN PrecErr("decimal")
                      ELSE PrecOk(FScale([neg |-> f.neg, mag |-> f.mag], 3600),
                                  determine_precision(coord_str))
    IN IF dotted THEN dms(parse_hms_or_dms(after(IndexOf(coord_str, {"."}))))
       ELSE IF \E i \in 1..Len(coord_str) : coord_str[i] = ":"
       THEN dms(parse_hms_or_dms(coord_str))
       ELSE decimal(float(coord_str))

\* the 'degrees' branch of parse_to_degrees: d:m:s when the token holds a
\* colon, a plain float otherwise
parse_degrees_token(coord_str) ==
    LET dms(t) == Angle(dms_to_degrees(t[1], t[2], t[3]), 1, t[3])
        decimal(f) == IF ~f.ok THEN PrecErr("decimal")
                      ELSE PrecOk(FScale([neg |-> f.neg, mag |-> f.mag], 3600),
                                  determine_precision(coord_str))
    IN IF \E i \in 1..Len(coord_str) : coord_str[i] = ":"
       THEN dms(parse_hms_or_dms(coord_str))
       ELSE decimal(float(coord_str))

\* value in units of 1/Unit degree, and the precision of the input
parse_to_degrees(coord_str0, is_ra, input_format) ==
    LET casa_ra(p) == IF p.err # "" THEN PrecErr(p.err)
                      ELSE Angle(hms_to_degrees(p.t[1], p.t[2], p.t[3]), 15, p.t[3])
        hmsdms(t) == IF is_ra THEN Angle(hms_to_degrees(t[1], t[2], t[3]), 15, t[3])
                     ELSE Angle(dms_to_degrees(t[1], t[2], t[3]), 1, t[3])
        parse(coord_str) ==
            IF input_format = "casa"
            THEN IF is_ra THEN casa_ra(parse_ra_colon_strict(coord_str))
                 ELSE parse_casa_dotted_dec(coord_str)
            ELSE IF input_format = "hmsdms" THEN hmsdms(parse_hms_or_dms(coord_str))
            ELSE parse_degrees_token(coord_str)
    IN parse(str_strip(coord_str0))

(***************************************************************************)
(* Rendering of numbers.                                                   *)
(***************************************************************************)
RECURSIVE IntStr(_)
IntStr(n) == IF n < 10 THEN <<DigitCh(n)>> ELSE IntStr(n \div 10) \o <<DigitCh(n % 10)>>

\* the w low decimal digits of n, zero-padded
RECURSIVE PadDigits(_, _)
PadDigits(n, w) == IF w = 0 THEN <<>> ELSE PadDigits(n \div 10, w - 1) \o <<DigitCh(n % 10)>>

\* f"{n:02d}" for n >= 0
Fmt02d(n) == IF n < 10 THEN <<"0">> \o IntStr(n) ELSE IntStr(n)

\* num/(k*Scale), 0 <= num, rounded half-even to p decimal digits: the
\* integer part and the p-digit fraction of the rounded value.
\* (A Python float that prints as a decimal tie is seldom the tie itself and
\* rounds to whichever side its binary value lies on; the exact value is
\* rounded here.)
RoundScaled(num, k, p) ==
    LET up == IF p > MaxFrac THEN Pow10(p - MaxFrac) ELSE 1
        down == IF p < MaxFrac THEN Pow10(MaxFrac - p) ELSE 1
        \* f: the kept digits, g/den: the part dropped, as a fraction of one
        \* unit of the last kept digit
        rounded(q, f, g, den) ==
            LET odd == IF p = 0 THEN (q + f) % 2 ELSE f % 2
                inc == IF 2 * g > den THEN 1 ELSE IF 2 * g = den THEN odd ELSE 0
            IN IF f + inc = Pow10(p) THEN [int |-> q + 1, frac |-> 0]
               ELSE [int |-> q, frac |-> f + inc]
        split(q, r) ==
            IF p >= MaxFrac
            THEN rounded(q, (r \div k) * up + ((r % k) * up) \div k, ((r % k) * up) % k, k)
            ELSE rounded(q, r \div (k * down), r % (k * down), k * down)
    IN split(num \div (k * Scale), num % (k * Scale))

\* f"{x:.{p}f}" of a rounded non-negative x
FixedStr(x, p) ==
    IntStr(x.int) \o (IF p > 0 THEN <<".">> \o PadDigits(x.frac, p) ELSE <<>>)

format_degrees(value, precision, force_sign) ==
    LET n == RoundScaled(value.mag, 3600, precision)
    IN (IF value.neg THEN <<"-">> ELSE IF force_sign THEN <<"+">> ELSE <<>>)
       \o FixedStr(n, precision)

\* value = num/(k*Scale), 0 <= value < 60
two_digit_left(num, k, precision) ==
    LET pad(base_str, p) ==
            IF p # 0
            THEN (IF p - 1 = 1 THEN <<"0">> \o base_str ELSE base_str)
            ELSE (IF Len(base_str) = 1 THEN <<"0">> \o base_str ELSE base_str)
        point(base_str) == pad(base_str, IndexOf(base_str, {"."}))
    IN point(FixedStr(RoundScaled(num, k, precision), precision))

\* the seconds field of degrees_to_hms and degrees_to_dms
SecondsStr(num, k, precision) ==
    IF precision > 0 THEN two_digit_left(num, k, precision)
    ELSE Fmt02d(RoundScaled(num, k, 0).int)

\* deg_val in units of 1/Unit degree; seconds of time = deg_val / (15*Scale)
degrees_to_hms(deg_val, precision, delimiter) ==
    LET k == 15
        minutes(hh, r1) ==
            Fmt02d(hh) \o delimiter \o Fmt02d(r1 \div (60 * k * Scale)) \o delimiter
            \o SecondsStr(r1 % (60 * k * Scale), k, precision)
        hours(t) == minutes(t \div (3600 * k * Scale), t % (3600 * k * Scale))
    IN hours(ToInt(deg_val) % (24 * 3600 * k * Scale))

degrees_to_dms(deg_val, precision, delimiter) ==
    LET sign == IF ToInt(deg_val) < 0 THEN <<"-">> ELSE <<"+">>
        minutes(dd, r1) ==
            sign \o Fmt02d(dd) \o delimiter \o Fmt02d(r1 \div (60 * Scale)) \o delimiter
            \o SecondsStr(r1 % (60 * Scale), 1, precision)
        degrees(v) == minutes(v \div (3600 * Scale), v % (3600 * Scale))
    IN degrees(deg_val.mag)

\* f"{ss:02.{p}f}" pads to an overall width of 2 only, f"{int(ss):02d}"
\* pads the whole seconds to two digits
degrees_to_casa_dec(deg_val, precision) ==
    LET sign == IF ToInt(deg_val) < 0 THEN <<"-">> ELSE <<"+">>
        s_str(ss) == IF precision > 0 THEN FixedStr(ss, precision) ELSE Fmt02d(ss.int)
        minutes(dd, r1) ==
            sign \o Fmt02d(dd) \o <<".">> \o Fmt02d(r1 \div (60 * Scale)) \o <<".">>
            \o s_str(RoundScaled(r1 % (60 * Scale), 1, precision))
        degrees(v) == minutes(v \div (3600 * Scale), v % (3600 * Scale))
    IN degrees(deg_val.mag)

(***************************************************************************)
(* ra_dec_converter.  The result records the error raised ("" for none),   *)
(* the string returned, and the values the call resolved before it         *)
(* validated them (resolved = TRUE once both axes parsed).                 *)
(***************************************************************************)
\* None as a precision and as a delimiter
NoPrecision == 0 - 1
NoDelimiter == <<"None">>

Failure(e) == [err |-> e, out |-> <<>>, resolved |-> FALSE, ra |-> Zero, dec |-> Zero,
               ra_prec |-> 0, dec_prec |-> 0]
RangeFailure(e, ra, dec) ==
    [err |-> e, out |-> <<>>, resolved |-> TRUE, ra |-> ra.val, dec |-> dec.val,
     ra_prec |-> ra.prec, dec_prec |-> dec.prec]
Success(out, ra, dec) ==
    [err |-> "", out |-> out, resolved |-> TRUE, ra |-> ra.val, dec |-> dec.val,
     ra_prec |-> ra.prec, dec_prec |-> dec.prec]

\* re.sub(r'\b[Jj]\s*2000\.?0?\b\s*', '', s): length of the match at i, 0 if none
IsWord(s, i) == i >= 1 /\ i <= Len(s) /\ s[i] \in WordCh
Boundary(s, i) == IsWord(s, i - 1) # IsWord(s, i)
\* mutant: the capital letter only
EpochMatch_upper(s, i) ==
    LET IsZero(x) == x <= Len(s) /\ s[x] = "0"
        IsDot(x) == x <= Len(s) /\ s[x] = "."
        \* the end of '\.?0?\b' that starts at e, 0 if it cannot end
        stop(e) == IF IsDot(e) /\ IsZero(e + 1) /\ Boundary(s, e + 2) THEN e + 2
                   ELSE IF IsDot(e) /\ Boundary(s, e + 1) THEN e + 1
                   ELSE IF IsZero(e) /\ Boundary(s, e + 1) THEN e + 1
                   ELSE IF Boundary(s, e) THEN e
                   ELSE 0
        trail(end) == IF end # 0 THEN end + RunLen(s, end, Space) - i ELSE 0
        year(j) == IF /\ s[i] = "J"
                      /\ Boundary(s, i)
                      /\ j + 3 <= Len(s)
                      /\ SubSeq(s, j, j + 3) = <<"2", "0", "0", "0">>
                   THEN trail(stop(j + 4))
                   ELSE 0
    IN year(i + 1 + RunLen(s, i + 1, Space))
EpochMatch(s, i) ==
    LET IsZero(x) == x <= Len(s) /\ s[x] = "0"
        IsDot(x) == x <= Len(s) /\ s[x] = "."
        \* the end of '\.?0?\b' that starts at e, 0 if it cannot end
        stop(e) == IF IsDot(e) /\ IsZero(e + 1) /\ Boundary(s, e + 2) THEN e + 2
                   ELSE IF IsDot(e) /\ Boundary(s, e + 1) THEN e + 1
                   ELSE IF IsZero(e) /\ Boundary(s, e + 1) THEN e + 1
                   ELSE IF Boundary(s, e) THEN e
                   ELSE 0
        trail(end) == IF end # 0 THEN end + RunLen(s, end, Space) - i ELSE 0
        year(j) == IF /\ s[i] \in {"J", "j"}
                      /\ Boundary(s, i)
                      /\ j + 3 <= Len(s)
                      /\ SubSeq(s, j, j + 3) = <<"2", "0", "0", "0">>
                   THEN trail(stop(j + 4))
                   ELSE 0
    IN year(i + 1 + RunLen(s, i + 1, Space))

RECURSIVE strip_epoch(_, _)
strip_epoch(s, i) ==
    LET skip(n) == IF n > 0 THEN strip_epoch(s, i + n) ELSE <<s[i]>> \o strip_epoch(s, i + 1)
    IN IF i > Len(s) THEN <<>> ELSE skip(EpochMatch(s, i))

\* 0 <= ra_val < 360 and -90 <= dec_val <= 90
ValidRa(ra_val) == InRange(ra_val, 0, 360 * Unit)
\* mutant: the upper Dec bound excluded
ValidDec_excl(dec_val) == 0 - 90 * Unit <= ToInt(dec_val) /\ ToInt(dec_val) < 90 * Unit
ValidDec(dec_val) == 0 - 90 * Unit <= ToInt(dec_val) /\ ToInt(dec_val) <= 90 * Unit

\* mutant: the override ignored
Pick_inferred(override, inferred) == inferred
Pick(override, inferred) == IF override # NoPrecision THEN override ELSE inferred

ra_dec_converter(input_string0, input_format, output_format, internal_delimiter0, ra_dec_delimiter, ra_only, dec_only, ra_precision, dec_precision) ==
    LET internal_delimiter ==
            IF internal_delimiter0 # NoDelimiter THEN internal_delimiter0
            ELSE IF output_format = "hmsdms" THEN <<":">> ELSE <<" ">>
        return(ra, dec, ra_str, dec_str) ==
            IF ra_only THEN Success(ra_str, ra, dec)
            ELSE IF dec_only THEN Success(dec_str, ra, dec)
            ELSE Success(ra_str \o ra_dec_delimiter \o dec_str, ra, dec)
        \* 5) format output
        format(ra, dec, final_ra_precision, final_dec_precision) ==
            IF output_format = "degrees"
            THEN return(ra, dec, format_degrees(ra.val, final_ra_precision, FALSE),
                        format_degrees(dec.val, final_dec_precision, TRUE))
            ELSE IF output_format = "hmsdms"
            THEN return(ra, dec,
                        degrees_to_hms(ra.val, final_ra_precision, internal_delimiter),
                        degrees_to_dms(dec.val, final_dec_precision, internal_delimiter))
            ELSE return(ra, dec, degrees_to_hms(ra.val, final_ra_precision, <<":">>),
                        degrees_to_casa_dec(dec.val, final_dec_precision))
        \* validate range; 4) decide final precision
        validate(ra, dec) ==
            IF ra.err # "" THEN Failure(ra.err)
            ELSE IF dec.err # "" THEN Failure(dec.err)
            ELSE IF ~ValidRa(ra.val) THEN RangeFailure("ra_range", ra, dec)
            ELSE IF ~ValidDec(dec.val) THEN RangeFailure("dec_range", ra, dec)
            ELSE format(ra, dec, Pick(ra_precision, ra.prec), Pick(dec_precision, dec.prec))
        \* 2) 3) convert RA and Dec => degrees
        convert(sp) ==
            IF sp.err # "" THEN Failure(sp.err)
            ELSE validate(parse_to_degrees(sp.ra, TRUE, input_format),
                          parse_to_degrees(sp.dec, FALSE, input_format))
        \* 1) split RA/Dec
        split(input_string) == convert(split_ra_dec(input_string, input_format))
    IN split(str_strip(strip_epoch(str_strip(input_string0), 1)))

(***************************************************************************)
(* src/coordinate_parser.py                                                *)
(***************************************************************************)
Sep == Space \cup {","}
NumCh == Digit \cup {"."}
Ws(lo) == It(Space, lo, -1, 0)
Colon == It({":"}, 1, 1, 0)
Point(g) == It({"."}, 0, 1, g)

\* r'^([+-]?\d{1,3}\.?\d*)\s*[,\s]+([+-]?\d{1,2}\.?\d*)$'
PatDecimal ==
    <<It(SignCh, 0, 1, 1), It(Digit, 1, 3, 1), Point(1), It(Digit, 0, -1, 1),
      Ws(0), It(Sep, 1, -1, 0),
      It(SignCh, 0, 1, 2), It(Digit, 1, 2, 2), Point(2), It(Digit, 0, -1, 2)>>

\* r'^(\d{1,3})\s*:\s*(\d{1,2})\s*:\s*([\d\.]+)\s*[,\s]+([+-]?\d{1,3})\s*:\s*(\d{1,2})\s*:\s*([\d\.]+)$'
PatColons ==
    <<It(Digit, 1, 3, 1), Ws(0), Colon, Ws(0), It(Digit, 1, 2, 2), Ws(0), Colon, Ws(0),
      It(NumCh, 1, -1, 3), Ws(0), It(Sep, 1, -1, 0),
      It(SignCh, 0, 1, 4), It(Digit, 1, 3, 4), Ws(0), Colon, Ws(0), It(Digit, 1, 2, 5),
      Ws(0), Colon, Ws(0), It(NumCh, 1, -1, 6)>>

\* r'^(\d{1,3})\s+(\d{1,2})\s+([\d\.]+)\s*[,\s]+([+-]?\d{1,3})\s+(\d{1,2})\s+([\d\.]+)$'
PatSpaces ==
    <<It(Digit, 1, 3, 1), Ws(1), It(Digit, 1, 2, 2), Ws(1), It(NumCh, 1, -1, 3),
      Ws(0), It(Sep, 1, -1, 0),
      It(SignCh, 0, 1, 4), It(Digit, 1, 3, 4), Ws(1), It(Digit, 1, 2, 5), Ws(1),
      It(NumCh, 1, -1, 6)>>

\* r'^(\d{1,3})\s*([hHdD°])\s*(\d{1,2})\s*[mM\']\s*([\d\.]+)\s*[sS"]\s*[,\s]+
\*    ([+-]?\d{1,3})\s*[dD°]\s*(\d{1,2})\s*[mM\']\s*([\d\.]+)\s*[sS"]$'
\* (the degree sign is outside the alphabet of the model)
MajorMark == {"h", "H", "d", "D"}
DegMark == {"d", "D"}
MinMark == {"m", "M", "'"}
SecMark == {"s", "S", "\""}
PatMarkers ==
    <<It(Digit, 1, 3, 1), Ws(0), It(MajorMark, 1, 1, 2), Ws(0), It(Digit, 1, 2, 3), Ws(0),
      It(MinMark, 1, 1, 0), Ws(0), It(NumCh, 1, -1, 4), Ws(0), It(SecMark, 1, 1, 0),
      Ws(0), It(Sep, 1, -1, 0),
      It(SignCh, 0, 1, 5), It(Digit, 1, 3, 5), Ws(0), It(DegMark, 1, 1, 0), Ws(0),
      It(Digit, 1, 2, 6), Ws(0), It(MinMark, 1, 1, 0), Ws(0), It(NumCh, 1, -1, 7),
      Ws(0), It(SecMark, 1, 1, 0)>>

\* r'^[JjEe]?\s*(\d{2})\s*(\d{2})\s*(\d+\.?\d*)\s*([+-])\s*(\d{2})\s*(\d{2})\s*(\d+\.?\d*)$'
PatCompact ==
    <<It({"J", "j", "E", "e"}, 0, 1, 0), Ws(0), It(Digit, 2, 2, 1), Ws(0), It(Digit, 2, 2, 2),
      Ws(0), It(Digit, 1, -1, 3), Point(3), It(Digit, 0, -1, 3), Ws(0),
      It(SignCh, 1, 1, 4), Ws(0), It(Digit, 2, 2, 5), Ws(0), It(Digit, 2, 2, 6), Ws(0),
      It(Digit, 1, -1, 7), Point(7), It(Digit, 0, -1, 7)>>

\* r'^(\d{2}):(\d{2}):(\d+\.?\d*)\s+([+-]?\d{1,3})\.(\d{1,2})\.(\d{1,2}\.?\d*)$'
PatCasa ==
    <<It(Digit, 2, 2, 1), Colon, It(Digit, 2, 2, 2), Colon,
      It(Digit, 1, -1, 3), Point(3), It(Digit, 0, -1, 3), Ws(1),
      It(SignCh, 0, 1, 4), It(Digit, 1, 3, 4), It({"."}, 1, 1, 0), It(Digit, 1, 2, 5),
      It({"."}, 1, 1, 0), It(Digit, 1, 2, 6), Point(6), It(Digit, 0, -1, 6)>>

patterns == <<PatDecimal, PatColons, PatSpaces, PatMarkers, PatCompact, PatCasa>>
GroupCount(pat) == CHOOSE n \in 0..7 : (\A k \in 1..Len(pat) : pat[k].grp <= n)
                                       /\ (\E k \in 1..Len(pat) : pat[k].grp = n)

\* r'^[+-]?\d+\.\d+\.\d+(?:\.\d+)?$': the optional group taken, then left out
casa_dec_pattern ==
    <<It(SignCh, 0, 1, 0), It(Digit, 1, -1, 0), It({"."}, 1, 1, 0), It(Digit, 1, -1, 0),
      It({"."}, 1, 1, 0), It(Digit, 1, -1, 0), It({"."}, 1, 1, 0), It(Digit, 1, -1, 0)>>
casa_dec_pattern_short == SubSeq(casa_dec_pattern, 1, 6)

hms_to_degrees_pat(hours, minutes, seconds) ==
    LET val(hh, mm, ss) ==
            IF ~hh.ok \/ ~mm.ok \/ ~ss.ok THEN ValErr("float")
            ELSE IF ~InRange(hh, 0, 24 * Scale) THEN ValErr("hours")
            ELSE IF ~InRange(mm, 0, 60 * Scale) THEN ValErr("minutes")
            ELSE IF ~InRange(ss, 0, 60 * Scale) THEN ValErr("seconds")
            ELSE ValOk(FAdd(FAdd(FScale(hh, 3600), FScale(mm, 60)), ss))
    IN val(float(hours), float(minutes), float(seconds))

\* the sign is that of the parsed number: float('-0') is not below zero
dms_to_degrees_pat(degrees, minutes, seconds) ==
    LET signed(minus, sum) == IF minus THEN FNeg(sum) ELSE sum
        val(d, mm, ss) ==
            IF ~d.ok \/ ~mm.ok \/ ~ss.ok THEN ValErr("float")
            ELSE IF ~InRange(mm, 0, 60 * Scale) THEN ValErr("minutes")
            ELSE IF ~InRange(ss, 0, 60 * Scale) THEN ValErr("seconds")
            ELSE ValOk(signed(ToInt(d) < 0,
                              FAdd(FAdd(FScale([neg |-> FALSE, mag |-> d.mag], 3600),
                                        FScale(mm, 60)), ss)))
        \* float() of a token the pattern let through with a sign before its
        \* digits
        number(f, g) ==
            IF f.ok THEN f
            ELSE IF degrees # <<>> /\ degrees[1] \in SignCh /\ g.ok
            THEN [ok |-> TRUE, neg |-> (degrees[1] = "-") # g.neg, mag |-> g.mag]
            ELSE [ok |-> FALSE, neg |-> FALSE, mag |-> 0]
    IN val(number(float(degrees), float(Tail2(degrees, 2))), float(minutes), float(seconds))

\* f"{s:0{w}.{p}f}" for s >= 0 in units of 10^-p: zero-padded to width w
RECURSIVE ZeroPad(_, _)
ZeroPad(str, w) == IF Len(str) >= w THEN str ELSE ZeroPad(<<"0">> \o str, w)

\* hours15: the hours in units of 1/(15*Unit) hour
degrees_to_hms_pat(hours15, precision, delimiter) ==
    LET k == 15
        seconds(s) == IF precision = 0 THEN FixedStr(s, 0)
                      ELSE ZeroPad(FixedStr(s, precision), 5)
        minutes(h, r1) ==
            Fmt02d(h) \o delimiter \o Fmt02d(r1 \div (60 * k * Scale)) \o delimiter
            \o seconds(RoundScaled(r1 % (60 * k * Scale), k, precision))
        hours(t) == minutes(t \div (3600 * k * Scale), t % (3600 * k * Scale))
    IN hours(ToInt(hours15) % (24 * 3600 * k * Scale))

degrees_to_dms_pat(degrees, precision, delimiter) ==
    LET sign == IF ToInt(degrees) < 0 THEN <<"-">> ELSE <<"+">>
        seconds(s) == IF precision = 0 THEN ZeroPad(FixedStr(s, 0), 2)
                      ELSE ZeroPad(FixedStr(s, precision), 5)
        minutes(d, r1) ==
            sign \o Fmt02d(d) \o delimiter \o Fmt02d(r1 \div (60 * Scale)) \o delimiter
            \o seconds(RoundScaled(r1 % (60 * Scale), 1, precision))
        whole(v) == minutes(v \div (3600 * Scale), v % (3600 * Scale))
    IN whole(degrees.mag)

\* index of the first pattern that matches, 0 if none does
FirstPattern(s) ==
    LET first(hits) == IF hits = {} THEN 0 ELSE CHOOSE k \in hits : \A j \in hits : k <= j
    IN first({k \in 1..Len(patterns) : re_match(patterns[k], s) # NoMatch})

\* the (ra, dec) of a match, ra still in hours for 'hmsdms' input:
\* [err, ra, dec] with ra and dec in units of 1/Unit
Parsed(e, ra, dec) == [err |-> e, ra |-> ra, dec |-> dec]
Both(ra, dec) == IF ra.err # "" THEN Parsed(ra.err, Zero, Zero)
                 ELSE IF dec.err # "" THEN Parsed(dec.err, Zero, Zero)
                 ELSE Parsed("", ra.val, dec.val)

MatchBranch(input_string, input_format, pat, m) ==
    LET Triple(hour, a, b, c) == IF hour THEN hms_to_degrees_pat(a, b, c)
                                 ELSE dms_to_degrees_pat(a, b, c)
        decimal(a, b) == Parsed("", FScale([neg |-> a.neg, mag |-> a.mag], 3600),
                                FScale([neg |-> b.neg, mag |-> b.mag], 3600))
        \* six groups: plain sexagesimal, or CASA
        plain(G, words, is_casa_format, is_hms) ==
            IF Len(words) < 2 THEN Parsed("IndexError", Zero, Zero)
            ELSE IF input_format = "hmsdms" /\ ~is_hms THEN Parsed("dms_as_hmsdms", Zero, Zero)
            ELSE IF input_format = "degrees" /\ is_hms THEN Parsed("hms_as_degrees", Zero, Zero)
            ELSE IF is_casa_format /\ input_format # "hmsdms"
                 THEN Parsed("casa_as_degrees", Zero, Zero)
            ELSE Both(Triple(is_hms \/ is_casa_format, G[1], G[2], G[3]),
                      dms_to_degrees_pat(G[4], G[5], G[6]))
        dec_part(G, words) ==
            plain(G, words,
                  \/ re_match(casa_dec_pattern, words[2]) # NoMatch
                  \/ re_match(casa_dec_pattern_short, words[2]) # NoMatch,
                  /\ InRange(float(G[1]), 0, 24 * Scale)
                  /\ \E i \in 1..Len(input_string) : input_string[i] \in {":", " "})
        \* seven groups with a unit marker in the second
        marked(G, has_hour_marker, has_degree_marker) ==
            IF input_format = "hmsdms" /\ ~has_hour_marker
            THEN Parsed("expected_hms", Zero, Zero)
            ELSE IF input_format = "degrees" /\ ~has_degree_marker
            THEN Parsed("expected_degrees", Zero, Zero)
            ELSE Both(Triple(has_hour_marker, G[1], G[3], G[4]),
                      dms_to_degrees_pat(G[5], G[6], G[7]))
        branch(G, n) ==
            IF n = 2
            THEN IF input_format = "hmsdms" THEN Parsed("decimal_as_hmsdms", Zero, Zero)
                 ELSE decimal(float(G[1]), float(G[2]))
            ELSE IF n = 6 THEN dec_part(G, str_split(input_string))
            ELSE IF G[2] \in {<<"h">>, <<"H">>, <<"d">>, <<"D">>}
            THEN marked(G, G[2] \in {<<"h">>, <<"H">>}, G[2] \in {<<"d">>, <<"D">>})
            ELSE Both(Triple(input_format = "hmsdms", G[1], G[2], G[3]),
                      dms_to_degrees_pat(G[4] \o G[5], G[6], G[7]))
    IN branch([g \in 1..7 |-> re_group(pat, input_string, m, g)], GroupCount(pat))

\* 0 <= ra < 360, or 0 <= ra/15 < 24 for 'hmsdms' output, and -90 <= dec <= 90
ValidRa_pat(ra) == InRange(ra, 0, 360 * Unit)
ValidDec_pat(dec) == 0 - 90 * Unit <= ToInt(dec) /\ ToInt(dec) <= 90 * Unit

ra_dec_converter_pat(input_string0, input_format, output_format, internal_delimiter, ra_dec_delimiter, ra_only, dec_only, ra_precision0, dec_precision0) ==
    LET ra_precision == IF ra_precision0 # NoPrecision THEN ra_precision0
                        ELSE IF output_format = "degrees" THEN 7 ELSE 2
        dec_precision == IF dec_precision0 # NoPrecision THEN dec_precision0
                         ELSE IF output_format = "degrees" THEN 6 ELSE 2
        return(ra, dec, ra_str, dec_str) ==
            IF ra_only THEN Success(ra_str, ra, dec)
            ELSE IF dec_only THEN Success(dec_str, ra, dec)
            ELSE Success(ra_str \o ra_dec_delimiter \o dec_str, ra, dec)
        format(ra, dec) ==
            IF output_format = "degrees"
            THEN return(ra, dec, format_degrees(ra.val, ra_precision, FALSE),
                        format_degrees(dec.val, dec_precision, TRUE))
            ELSE return(ra, dec, degrees_to_hms_pat(ra.val, ra_precision, internal_delimiter),
                        degrees_to_dms_pat(dec.val, dec_precision, internal_delimiter))
        validate(ra, dec) ==
            IF ~ValidRa_pat(ra.val) THEN RangeFailure("ra_range", ra, dec)
            ELSE IF ~ValidDec_pat(dec.val) THEN RangeFailure("dec_range", ra, dec)
            ELSE format(ra, dec)
        \* ra *= 15 for 'hmsdms' input
        scale(pr) ==
            IF pr.err # "" THEN Failure(pr.err)
            ELSE validate([val |-> IF input_format = "hmsdms" THEN FScale(pr.ra, 15) ELSE pr.ra,
                           prec |-> ra_precision],
                          [val |-> pr.dec, prec |-> dec_precision])
        match(input_string, k) ==
            IF k = 0 THEN Failure("not_recognized")
            ELSE scale(MatchBranch(input_string, input_format, patterns[k],
                                   re_match(patterns[k], input_string)))
        clean(input_string) == match(input_string, FirstPattern(input_string))
    IN IF input_format \notin {"hmsdms", "degrees"} THEN Failure("input_format")
       ELSE IF output_format \notin {"degrees", "hmsdms"} THEN Failure("output_format")
       ELSE clean(str_strip(strip_epoch(str_strip(input_string0), 1)))

(***************************************************************************)
(* The inputs of the model: coordinates written out in the notations the   *)
(* converter is given.  A triple holds the text of its fields.             *)
(***************************************************************************)
\* the smallest positive seconds value of MaxFrac digits, "00.0..1"
Tiny == <<"0", "0", ".">> \o [i \in 1..(MaxFrac - 1) |-> "0"] \o <<"1">>

RaOk == {<<Chars("12"), Chars("34"), Chars("56")>>,
         <<Chars("00"), Chars("00"), Chars("00")>>,
         <<Chars("01"), Chars("00"), Chars("00")>>,
         <<Chars("18"), Chars("04"), Chars("20.99")>>,
         <<Chars("23"), Chars("59"), Chars("59.9")>>}
RaBad == {<<Chars("24"), Chars("00"), Chars("00")>>,
          <<Chars("00"), Chars("60"), Chars("00")>>,
          <<Chars("00"), Chars("00"), Chars("60")>>}
RaTriples == RaOk \cup RaBad

DecOk == {<<"+", Chars("45"), Chars("23"), Chars("45")>>,
          <<"-", Chars("29"), Chars("31"), Chars("08.9")>>,
          <<"+", Chars("90"), Chars("00"), Chars("00")>>,
          <<"-", Chars("90"), Chars("00"), Chars("00")>>,
          <<"-", Chars("00"), Chars("30"), Chars("00")>>,
          <<"+", Chars("17"), Chars("43"), Chars("31.22")>>}
DecBad == {<<"+", Chars("90"), Chars("00"), Tiny>>,
           <<"-", Chars("90"), Chars("00"), Tiny>>,
           <<"+", Chars("10"), Chars("60"), Chars("00")>>,
           <<"+", Chars("10"), Chars("00"), Chars("60")>>}
DecTriples == DecOk \cup DecBad

Gaps == {Chars(" "), Chars("   "), Chars("\t"), Chars("\n"), Chars("\r\n"), Chars(", "),
         Chars(",")}

\* the RA/Dec text of a coordinate in a style; dec[1] is the sign
WriteRa(style, ra) ==
    CASE style = "colon" -> ra[1] \o <<":">> \o ra[2] \o <<":">> \o ra[3]
      [] style = "space" -> ra[1] \o <<" ">> \o ra[2] \o <<" ">> \o ra[3]
      [] style = "unit" -> ra[1] \o <<"h">> \o ra[2] \o <<"m">> \o ra[3] \o <<"s">>
      [] style = "unit_space" -> ra[1] \o Chars("h ") \o ra[2] \o Chars("m ") \o ra[3] \o <<"s">>
      [] style = "compact" -> ra[1] \o ra[2] \o ra[3]
      [] style = "major" -> ra[1]
      [] style = "major_min" -> ra[1] \o <<":">> \o ra[2]
      [] style = "absent" -> <<>>
      [] style = "minus" -> <<"-">> \o ra[1] \o <<":">> \o ra[2] \o <<":">> \o ra[3]
      [] style = "colon4" ->
             ra[1] \o <<":">> \o ra[2] \o <<":">> \o ra[3] \o <<":">> \o ra[4]
WriteDec(style, dec) ==
    LET sg == IF dec[1] = "" THEN <<>> ELSE <<dec[1]>>
    IN CASE style = "colon" -> sg \o dec[2] \o <<":">> \o dec[3] \o <<":">> \o dec[4]
         [] style = "dotted" -> sg \o dec[2] \o <<".">> \o dec[3] \o <<".">> \o dec[4]
         [] style = "space" -> sg \o dec[2] \o <<" ">> \o dec[3] \o <<" ">> \o dec[4]
         [] style = "unit" -> sg \o dec[2] \o <<"d">> \o dec[3] \o <<"m">> \o dec[4] \o <<"s">>
         [] style = "unit_space" ->
                sg \o dec[2] \o Chars("d ") \o dec[3] \o Chars("m ") \o dec[4] \o <<"s">>
         [] style = "compact" -> sg \o dec[2] \o dec[3] \o dec[4]
         [] style = "major" -> sg \o dec[2]
         [] style = "major_min" -> sg \o dec[2] \o <<":">> \o dec[3]
         [] style = "colon4" ->
                sg \o dec[2] \o <<":">> \o dec[3] \o <<":">> \o dec[4] \o <<":">> \o dec[5]
Write(w) == w.prefix \o WriteRa(w.rstyle, w.ra) \o w.gap \o WriteDec(w.dstyle, w.dec)

Written(prefix, rstyle, dstyle, gap, ra, dec) ==
    [prefix |-> prefix, rstyle |-> rstyle, dstyle |-> dstyle, gap |-> gap, ra |-> ra,
     dec |-> dec]
Plain(style, ra, dec) == Written(<<>>, style, style, Chars(" "), ra, dec)

\* the degree-based triple of the angle of an hour-based triple (15 times
\* the hours), seconds written with MaxFrac digits
DegTriple(ra) ==
    LET triple(v, sec) ==
            <<IntStr(v \div Unit), Fmt02d((v % Unit) \div (60 * Scale)),
              Fmt02d(sec \div Scale) \o <<".">> \o PadDigits(sec % Scale, MaxFrac)>>
        seconds(v) == triple(v, v % (60 * Scale))
    IN seconds((DigitsVal(ra[1]) * 3600 + DigitsVal(ra[2]) * 60) * Scale * 15
               + float(ra[3]).mag * 15)

\* boundary values of every field, colon-delimited and with a dotted Dec
FamBoundary ==
    {Written(<<>>, "colon", ds, Chars(" "), ra, dec) :
        ds \in {"colon", "dotted"}, ra \in RaTriples, dec \in DecTriples}

\* one coordinate under every delimiter and every RA/Dec gap
DelimStyles == {"colon", "space", "unit", "unit_space"}
FamDelims ==
    {Written(<<>>, st, st, gap, ra, dec) :
        st \in DelimStyles, gap \in Gaps,
        ra \in {<<Chars("12"), Chars("34"), Chars("56")>>,
                <<Chars("18"), Chars("04"), Chars("20.99")>>},
        dec \in {<<"+", Chars("45"), Chars("23"), Chars("45")>>,
                 <<"-", Chars("29"), Chars("31"), Chars("08.9")>>}}

\* compact run-together notation, with and without the epoch letter
FamCompact ==
    {Written(pre, "compact", "compact", <<>>, ra, dec) :
        pre \in {<<>>, <<"J">>, <<"E">>},
        ra \in {<<Chars("12"), Chars("34"), Chars("56")>>,
                <<Chars("18"), Chars("04"), Chars("20.99")>>,
                <<Chars("00"), Chars("00"), Chars("00")>>,
                <<Chars("24"), Chars("00"), Chars("00")>>},
        dec \in {<<"+", Chars("45"), Chars("23"), Chars("45")>>,
                 <<"-", Chars("29"), Chars("31"), Chars("08.9")>>,
                 <<"-", Chars("00"), Chars("30"), Chars("00")>>,
                 <<"+", Chars("90"), Chars("00"), Tiny>>}}

\* elided minutes and seconds
FamElided ==
    {Plain(st, ra, dec) :
        st \in {"major", "major_min"},
        ra \in {<<Chars("12"), Chars("00"), Chars("00")>>,
                <<Chars("12"), Chars("30"), Chars("00")>>,
                <<Chars("0"), Chars("00"), Chars("00")>>,
                <<Chars("23"), Chars("59"), Chars("00")>>,
                <<Chars("24"), Chars("00"), Chars("00")>>},
        dec \in {<<"+", Chars("45"), Chars("00"), Chars("00")>>,
                 <<"-", Chars("45"), Chars("30"), Chars("00")>>,
                 <<"+", Chars("90"), Chars("00"), Chars("00")>>,
                 <<"-", Chars("90"), Chars("00"), Chars("00")>>,
                 <<"+", Chars("91"), Chars("00"), Chars("00")>>,
                 <<"-", Chars("0"), Chars("30"), Chars("00")>>}}

\* two plain decimal numbers
FamDecimal ==
    {Written(<<>>, "major", "major", gap, <<ra>>, dec) :
        gap \in {Chars(" "), Chars(","), <<>>},
        ra \in {Chars("12.5"), Chars("271.08"), Chars("0.5"), Chars("359.99"),
                Chars("360.0"), Chars("15.")},
        dec \in {<<"+", Chars("45.5")>>, <<"-", Chars("29.51")>>, <<"+", Chars("90.0")>>,
                 <<"-", Chars("90.01")>>, <<"", Chars("45.5")>>}}

\* degree-based sexagesimal RA
FamDegTriples ==
    {Plain("colon", DegTriple(ra), dec) :
        ra \in RaOk,
        dec \in {<<"+", Chars("45"), Chars("23"), Chars("45")>>,
                 <<"-", Chars("29"), Chars("31"), Chars("08.9")>>,
                 <<"+", Chars("90"), Chars("00"), Chars("00")>>}}

\* well-formed and malformed dotted Dec tokens after a colon-delimited RA
FamCasaTokens ==
    {Written(<<>>, "colon", "dotted", Chars(" "),
             <<Chars("09"), Chars("54"), Chars("56.8")>>, <<sg, d, m, s>>) :
        sg \in {"+", "-", ""},
        d \in {Chars("7"), Chars("17"), Chars("089"), Chars("1234")},
        m \in {Chars("4"), Chars("43"), Chars("433")},
        s \in {Chars("3"), Chars("31"), Chars("311"), Chars("31.22"), Chars("31.")}}
    \cup
    {Written(<<>>, "absent", "dotted", <<>>, <<>>, <<sg, Chars("17"), Chars("43"), s>>) :
        sg \in {"+", "-"}, s \in {Chars("31"), Chars("31.22")}}
    \cup
    {Written(<<>>, "colon", "major", Chars(" "),
             <<Chars("09"), Chars("54"), Chars("56.8")>>, <<sg, d>>) :
        sg \in {"+", "-"}, d \in {Chars("17.43"), Chars("17")}}

\* epoch markers before a coordinate of every grammar
Epochs == {Chars("J2000 "), Chars("j2000 "), Chars("J2000.0 "), Chars("j2000.0 "),
           Chars("J 2000 "), Chars("j 2000.0 ")}
FamEpoch ==
    {[w EXCEPT !.prefix = e] :
        e \in Epochs,
        w \in {Plain("colon", <<Chars("12"), Chars("34"), Chars("56")>>,
                     <<"+", Chars("45"), Chars("23"), Chars("45")>>),
               Plain("space", <<Chars("18"), Chars("04"), Chars("20.99")>>,
                     <<"-", Chars("29"), Chars("31"), Chars("08.9")>>),
               Plain("major", <<Chars("12.5")>>, <<"+", Chars("45.5")>>),
               Plain("major", <<Chars("271.08")>>, <<"-", Chars("29.51")>>),
               Written(<<>>, "colon", "dotted", Chars(" "),
                       <<Chars("09"), Chars("54"), Chars("56.8")>>,
                       <<"+", Chars("17"), Chars("43"), Chars("31.22")>>),
               Plain("colon", <<Chars("24"), Chars("00"), Chars("00")>>,
                     <<"+", Chars("45"), Chars("23"), Chars("45")>>)}}

\* six tokens, the fourth without a sign
FamSix ==
    {Written(<<>>, st, st, gap, ra, dec) :
        st \in {"colon", "space"}, gap \in {Chars(" "), Chars(", "), Chars(",")},
        ra \in {<<Chars("12"), Chars("34"), Chars("56")>>,
                <<Chars("18"), Chars("04"), Chars("20.99")>>},
        dec \in {<<"", Chars("45"), Chars("23"), Chars("45")>>,
                 <<"", Chars("29"), Chars("31"), Chars("08.9")>>}}

\* no RA field, a signed first token, four sub-fields on an axis
FamMalformed ==
    {Written(<<>>, "absent", "colon", <<>>, <<>>, dec) : dec \in DecOk}
    \cup
    {Written(<<>>, "minus", "colon", Chars(" "), ra, dec) :
        ra \in {<<Chars("12"), Chars("00"), Chars("00")>>,
                <<Chars("18"), Chars("04"), Chars("20.99")>>},
        dec \in {<<"+", Chars("45"), Chars("00"), Chars("00")>>,
                 <<"-", Chars("29"), Chars("31"), Chars("08.9")>>}}
    \cup
    {Written(<<>>, "colon4", "colon", Chars(" "),
             <<Chars("12"), Chars("34"), Chars("56"), Chars("78")>>, dec) :
        dec \in {<<"+", Chars("45"), Chars("00"), Chars("00")>>,
                 <<"-", Chars("29"), Chars("31"), Chars("08.9")>>}}
    \cup
    {Written(<<>>, "colon", "colon4", Chars(" "), ra,
             <<"+", Chars("45"), Chars("00"), Chars("00"), Chars("11")>>) :
        ra \in {<<Chars("12"), Chars("34"), Chars("56")>>,
                <<Chars("18"), Chars("04"), Chars("20.99")>>}}

Writings == FamBoundary \cup FamDelims \cup FamCompact \cup FamElided \cup FamDecimal
            \cup FamDegTriples \cup FamCasaTokens \cup FamEpoch \cup FamSix
            \cup FamMalformed

(***************************************************************************)
(* The calls.  args holds the arguments of the call in progress, coord the *)
(* coordinate its input_string was written from, impl the implementation   *)
(* called and result what it returned or raised.                           *)
(***************************************************************************)
VARIABLES pc, impl, coord, args, result
vars == <<pc, impl, coord, args, result>>

Args(s, inf, outf, idel, rdel, ro, do, rp, dp) ==
    [input_string |-> s, input_format |-> inf, output_format |-> outf,
     internal_delimiter |-> idel, ra_dec_delimiter |-> rdel, ra_only |-> ro,
     dec_only |-> do, ra_precision |-> rp, dec_precision |-> dp]

\* 'galactic' stands for every value that names no grammar
InputFormats == {"hmsdms", "degrees", "casa", "galactic"}
\* output_format, ra_only, dec_only, ra_precision, dec_precision
OutputConfigs == {<<"degrees", FALSE, FALSE, NoPrecision, NoPrecision>>,
                  <<"hmsdms", FALSE, FALSE, 2, 2>>,
                  <<"casa", FALSE, TRUE, NoPrecision, NoPrecision>>,
                  <<"degrees", TRUE, TRUE, NoPrecision, NoPrecision>>,
                  <<"degrees", FALSE, FALSE, 3, 1>>,
                  <<"hmsdms", FALSE, FALSE, 0, 0>>,
                  <<"galactic", FALSE, FALSE, NoPrecision, NoPrecision>>}

NoCoord == Written(<<>>, "none", "none", <<>>, <<>>, <<>>)
NoResult == Failure("not_called")

Init ==
    /\ pc = "idle"
    /\ impl = "none"
    /\ coord = NoCoord
    /\ args = Args(<<>>, "hmsdms", "degrees", NoDelimiter, <<"\t">>, FALSE, FALSE,
                   NoPrecision, NoPrecision)
    /\ result = NoResult

Apply(a) ==
    ra_dec_converter(a.input_string, a.input_format, a.output_format, a.internal_delimiter,
                     a.ra_dec_delimiter, a.ra_only, a.dec_only, a.ra_precision,
                     a.dec_precision)
ApplyPat(a) ==
    ra_dec_converter_pat(a.input_string, a.input_format, a.output_format,
                         a.internal_delimiter, a.ra_dec_delimiter, a.ra_only, a.dec_only,
                         a.ra_precision, a.dec_precision)

\* a call of src/python/coordinate_parser.py: ra_dec_converter, with its
\* defaults internal_delimiter=None, ra_dec_delimiter='\t'
Call ==
    /\ pc = "idle"
    /\ \E w \in Writings, inf \in InputFormats, c \in OutputConfigs :
          LET a == Args(Write(w), inf, c[1], NoDelimiter, <<"\t">>, c[2], c[3], c[4], c[5])
          IN /\ coord' = w
             /\ args' = a
             /\ result' = Apply(a)
    /\ impl' = "parser"
    /\ pc' = "done"

\* a call of src/coordinate_parser.py: ra_dec_converter, with its defaults
\* internal_delimiter=' ', ra_dec_delimiter=', '
CallPat ==
    /\ pc = "idle"
    /\ \E w \in Writings, inf \in InputFormats, c \in OutputConfigs :
          LET a == Args(Write(w), inf, c[1], <<" ">>, Chars(", "), c[2], c[3], c[4], c[5])
          IN /\ coord' = w
             /\ args' = a
             /\ result' = ApplyPat(a)
    /\ impl' = "patterns"
    /\ pc' = "done"

\* the call is over; nothing of it outlives it
Return ==
    /\ pc = "done"
    /\ pc' = "idle"
    /\ impl' = "none"
    /\ coord' = NoCoord
    /\ args' = Args(<<>>, "hmsdms", "degrees", NoDelimiter, <<"\t">>, FALSE, FALSE,
                    NoPrecision, NoPrecision)
    /\ result' = NoResult

Next == Call \/ CallPat \/ Return

Spec == Init /\ [][Next]_vars

(***************************************************************************)
(* The conversion functions called on their own.  impl holds the name of   *)
(* the function called, coord the triple its value was written as, args    *)
(* its arguments and result what it returned.                              *)
(***************************************************************************)
\* the largest seconds value of MaxFrac digits, "59.9..9"
Near60 == <<"5", "9", ".">> \o [i \in 1..MaxFrac |-> "9"]
Precisions == 0..(MaxFrac + 1)

FnRa == RaOk \cup {<<Chars("12"), Chars("34"), Chars("05")>>,
                   <<Chars("12"), Chars("34"), Chars("08.9")>>,
                   <<Chars("12"), Chars("34"), Near60>>}
FnDec == DecOk \cup {<<"+", Chars("45"), Chars("23"), Chars("05")>>,
                     <<"+", Chars("45"), Chars("23"), Near60>>,
                     <<"-", Chars("00"), Chars("59"), Near60>>,
                     <<"", Chars("45"), Chars("23"), Chars("08.9")>>,
                     <<"-", Chars("0"), Chars("00"), Chars("30")>>}

\* the degrees a triple stands for, as the converters hand them on
RaDegrees(ra) == FScale(hms_to_degrees(ra[1], ra[2], ra[3]).val, 15)
\* the degrees field with its sign
SignedField(dec) == (IF dec[1] = "" THEN <<>> ELSE <<dec[1]>>) \o dec[2]
DecDegrees(dec) == dms_to_degrees(SignedField(dec), dec[3], dec[4]).val

Rendering(deg_val, precision, delimiter) ==
    [deg_val |-> deg_val, precision |-> precision, delimiter |-> delimiter]
Rendered(out) == [err |-> "", out |-> out]
\* src/python/coordinate_parser.py
CallDegreesToHms ==
    /\ pc = "idle"
    /\ \E ra \in FnRa, p \in Precisions :
          /\ coord' = [ra |-> ra]
          /\ args' = Rendering(RaDegrees(ra), p, <<":">>)
          /\ result' = Rendered(degrees_to_hms(RaDegrees(ra), p, <<":">>))
    /\ impl' = "degrees_to_hms"
    /\ pc' = "done"
CallDegreesToDms ==
    /\ pc = "idle"
    /\ \E dec \in FnDec, p \in Precisions :
          /\ coord' = [dec |-> dec]
          /\ args' = Rendering(DecDegrees(dec), p, <<":">>)
          /\ result' = Rendered(degrees_to_dms(DecDegrees(dec), p, <<":">>))
    /\ impl' = "degrees_to_dms"
    /\ pc' = "done"
CallDegreesToCasaDec ==
    /\ pc = "idle"
    /\ \E dec \in FnDec, p \in Precisions :
          /\ coord' = [dec |-> dec]
          /\ args' = Rendering(DecDegrees(dec), p, <<".">>)
          /\ result' = Rendered(degrees_to_casa_dec(DecDegrees(dec), p))
    /\ impl' = "degrees_to_casa_dec"
    /\ pc' = "done"
CallDmsToDegrees ==
    /\ pc = "idle"
    /\ \E dec \in FnDec :
          /\ coord' = [dec |-> dec]
          /\ args' = [d |-> SignedField(dec), m |-> dec[3], s |-> dec[4]]
          /\ result' = dms_to_degrees(SignedField(dec), dec[3], dec[4])
    /\ impl' = "dms_to_degrees"
    /\ pc' = "done"

\* src/coordinate_parser.py
CallDegreesToHmsPat ==
    /\ pc = "idle"
    /\ \E ra \in FnRa, p \in Precisions :
          /\ coord' = [ra |-> ra]
          /\ args' = Rendering(RaDegrees(ra), p, <<" ">>)
          /\ result' = Rendered(degrees_to_hms_pat(RaDegrees(ra), p, <<" ">>))
    /\ impl' = "degrees_to_hms_pat"
    /\ pc' = "done"
CallDegreesToDmsPat ==
    /\ pc = "idle"
    /\ \E dec \in FnDec, p \in Precisions :
          /\ coord' = [dec |-> dec]
          /\ args' = Rendering(DecDegrees(dec), p, <<" ">>)
          /\ result' = Rendered(degrees_to_dms_pat(DecDegrees(dec), p, <<" ">>))
    /\ impl' = "degrees_to_dms_pat"
    /\ pc' = "done"
CallDmsToDegreesPat ==
    /\ pc = "idle"
    /\ \E dec \in FnDec :
          /\ coord' = [dec |-> dec]
          /\ args' = [d |-> SignedField(dec), m |-> dec[3], s |-> dec[4]]
          /\ result' = dms_to_degrees_pat(SignedField(dec), dec[3], dec[4])
    /\ impl' = "dms_to_degrees_pat"
    /\ pc' = "done"

FnNext ==
    \/ CallDegreesToHms \/ CallDegreesToDms \/ CallDegreesToCasaDec \/ CallDmsToDegrees
    \/ CallDegreesToHmsPat \/ CallDegreesToDmsPat \/ CallDmsToDegreesPat
    \/ Return

FnSpec == Init /\ [][FnNext]_vars

(***************************************************************************)
(* Properties.                                                             *)
(***************************************************************************)
Done == pc = "done"
Accepted == result.err = ""
\* the result of the call in progress on another input text and grammar
Other(text, inf) == Apply([args EXCEPT !.input_string = text, !.input_format = inf])
SameResolved(r1, r2) ==
    /\ r1.err = r2.err
    /\ r1.resolved = r2.resolved
    /\ r1.ra = r2.ra
    /\ r1.dec = r2.dec
\* the value of a field as written
FieldVal(t) == float(t).mag
AllDigits(t) == \A i \in 1..Len(t) : t[i] \in Digit

\* C1: every call that resolved both axes returns a result exactly when
\* 0 <= RA < 360 and -90 <= Dec <= 90, and raises otherwise; a Dec of
\* exactly +90 or -90 is accepted, one of +-90:00:00.0..1 is rejected
\* (src/coordinate_parser.py raises for every output_format but 'degrees'
\* and 'hmsdms').
C1_RangeValidated ==
    Done =>
       /\ result.resolved =>
             (Accepted <=> /\ 0 <= ToInt(result.ra) /\ ToInt(result.ra) < 360 * Unit
                           /\ 0 - 90 * Unit <= ToInt(result.dec)
                           /\ ToInt(result.dec) <= 90 * Unit)
       /\ (/\ coord \in FamBoundary /\ coord.dstyle = "colon"
           /\ args.input_format = "hmsdms" /\ coord.ra \in RaOk
           /\ (impl = "parser" \/ args.output_format \in {"degrees", "hmsdms"})
           /\ coord.dec[2] = Chars("90") /\ coord.dec[3] = Chars("00"))
          => IF coord.dec[4] = Tiny THEN result.err = "dec_range" ELSE Accepted
C1_Witness ==
    /\ Done /\ Accepted /\ result.dec = [neg |-> TRUE, mag |-> 90 * Unit]
    /\ args.input_format = "hmsdms"

\* a coordinate written as two triples in the notation the declared grammar
\* reads field by field
ReadAsWritten ==
    /\ coord \in FamBoundary
    /\ \/ args.input_format \in {"hmsdms", "degrees"} /\ coord.dstyle = "colon"
       \/ args.input_format = "casa" /\ coord.dstyle = "dotted"
FieldOutOfRange ==
    \/ args.input_format # "degrees" /\ FieldVal(coord.ra[1]) >= 24 * Scale
    \/ FieldVal(coord.ra[2]) >= 60 * Scale
    \/ FieldVal(coord.ra[3]) >= 60 * Scale
    \/ FieldVal(coord.dec[3]) >= 60 * Scale
    \/ FieldVal(coord.dec[4]) >= 60 * Scale

\* C2: under every grammar and on both axes, an hours field outside [0,24)
\* or a minutes or seconds field outside [0,60) makes the call raise.
C2_FieldRangesRejected == (Done /\ ReadAsWritten /\ FieldOutOfRange) => ~Accepted

\* C3: an hour-based RA triple under 'hmsdms' and the degree-based triple of
\* the same angle under 'degrees' resolve to the same RA and Dec.
HourBased ==
    /\ Done /\ impl = "parser" /\ args.input_format = "hmsdms"
    /\ coord \in FamBoundary /\ coord.dstyle = "colon" /\ coord.ra \in RaOk
WhiteGaps == {Chars(" "), Chars("   "), Chars("\t"), Chars("\n"), Chars("\r\n")}
C4_DelimiterInsensitive ==
    (/\ Done /\ impl = "parser" /\ args.input_format = "hmsdms"
     /\ coord \in FamDelims /\ coord.gap \in WhiteGaps)
    => result = Other(Write(Plain("colon", coord.ra, coord.dec)), "hmsdms")
\* the same of src/coordinate_parser.py, up to the error raised
C4_DelimiterInsensitive_pat ==
    (/\ Done /\ impl = "patterns" /\ args.input_format = "hmsdms"
     /\ coord \in FamDelims /\ coord.gap \in WhiteGaps)
    => result = ApplyPat([args EXCEPT
                            !.input_string = Write(Plain("colon", coord.ra, coord.dec))])

\* C5: under 'hmsdms' a compact run-together input resolves like the
\* colon-delimited form of the same fields.
C5_CompactAccepted ==
    (Done /\ impl = "parser" /\ args.input_format = "hmsdms" /\ coord \in FamCompact)
    => LET colon == Other(Write(Plain("colon", coord.ra, coord.dec)), "hmsdms")
       IN colon.err = "" => SameResolved(result, colon)
\* the same of src/coordinate_parser.py
C5_CompactAccepted_pat ==
    (Done /\ impl = "patterns" /\ args.input_format = "hmsdms" /\ coord \in FamCompact)
    => LET colon == ApplyPat([args EXCEPT
                    !.input_string = Write(Plain("colon", coord.ra, coord.dec))])
       IN colon.err = "" => SameResolved(result, colon)

\* C6: under 'hmsdms' an axis that gives only its major unit, or only major
\* unit and minutes, resolves as with the missing fields written as zero;
\* '12 +45' renders as 12:00:00.00 and +45:00:00.00 at precision 2.
Filled(t, n) == [i \in 1..Len(t) |-> IF i > n THEN Chars("00") ELSE t[i]]
Elided ==
    /\ Done /\ impl = "parser" /\ args.input_format = "hmsdms" /\ coord \in FamElided
C6_ElisionFill ==
    Elided =>
       LET n == IF coord.rstyle = "major" THEN 1 ELSE 2
       IN /\ result = Other(Write(Plain("colon", Filled(coord.ra, n),
                                        Filled(coord.dec, n + 1))), "hmsdms")
          /\ (/\ Write(coord) = Chars("12 +45")
              /\ args.output_format = "hmsdms" /\ ~args.ra_only /\ ~args.dec_only
              /\ args.ra_precision = 2 /\ args.dec_precision = 2)
             => result.out = Chars("12:00:00.00\t+45:00:00.00")
C6_Witness ==
    /\ Elided /\ Accepted /\ coord.rstyle = "major"
    /\ result.out = Chars("12:00:00.00\t+45:00:00.00")

\* sign, 1-3 digits, dot, 1-2 digits, dot, 1-2 digits with an optional
\* decimal fraction
SecondsShape(t) ==
    LET p == IndexOf(t, {"."})
        ip == IF p = 0 THEN t ELSE SubSeq(t, 1, p - 1)
        fp == IF p = 0 THEN <<>> ELSE Tail2(t, p + 1)
    IN /\ AllDigits(ip) /\ Len(ip) \in 1..2
       /\ AllDigits(fp)
       /\ p # 0 => Len(fp) >= 1
CasaShape(w) ==
    /\ w.dstyle = "dotted"
    /\ w.dec[1] \in SignCh
    /\ AllDigits(w.dec[2]) /\ Len(w.dec[2]) \in 1..3
    /\ AllDigits(w.dec[3]) /\ Len(w.dec[3]) \in 1..2
    /\ SecondsShape(w.dec[4])
CasaValue(w) ==
    [neg |-> w.dec[1] = "-",
     mag |-> (DigitsVal(w.dec[2]) * 3600 + DigitsVal(w.dec[3]) * 60) * Scale
             + FieldVal(w.dec[4])]

\* C7: under 'casa' the Dec token is accepted exactly when it has the dotted
\* shape, and then resolves to sign * (DD + MM/60 + SS/3600), the value of
\* the colon-delimited token under 'hmsdms'; a token without sign or with
\* one dot only is rejected.
CasaCall ==
    /\ Done /\ impl = "parser" /\ args.input_format = "casa"
    /\ coord \in FamCasaTokens /\ coord.rstyle = "colon"
C7_CasaDecShape ==
    CasaCall =>
       /\ result.err = "casa_dec" <=> ~CasaShape(coord)
       /\ CasaShape(coord) =>
             /\ result.resolved
             /\ result.dec = CasaValue(coord)
             /\ (FieldVal(coord.dec[3]) < 60 * Scale /\ FieldVal(coord.dec[4]) < 60 * Scale)
                => LET colon == Other(Write([coord EXCEPT !.dstyle = "colon"]), "hmsdms")
                   IN colon.resolved /\ colon.dec = result.dec
C7_Witness ==
    /\ CasaCall /\ Accepted /\ CasaShape(coord)
    /\ coord.dec = <<"-", Chars("17"), Chars("43"), Chars("31.22")>>
    /\ result.dec = [neg |-> TRUE, mag |-> (17 * 3600 + 43 * 60 + 31) * Scale + 22 * Pow10(MaxFrac - 2)]

\* C8: under 'degrees' an input whose Dec token has the dotted shape raises.
DottedUnderDegrees ==
    /\ Done /\ args.input_format = "degrees"
    /\ coord \in FamCasaTokens \cup FamBoundary /\ CasaShape(coord)
C8_DottedRejectedAsDegrees == DottedUnderDegrees => ~Accepted
C8_Witness ==
    /\ DottedUnderDegrees /\ impl = "parser" /\ result.err = "decimal"
    /\ Write(coord) = Chars("09:54:56.8 +17.43.31.22")

\* C9: under 'hmsdms' two plain decimal numbers raise.
HasPoint(t) == \E i \in 1..Len(t) : t[i] = "."
C9_DecimalRejectedAsHmsdms ==
    (/\ Done /\ args.input_format = "hmsdms" /\ coord \in FamDecimal
     /\ coord.gap = Chars(" ") /\ HasPoint(coord.ra[1]) /\ HasPoint(coord.dec[2]))
    => ~Accepted
\* the same of src/coordinate_parser.py alone
C9_DecimalRejectedAsHmsdms_pat == impl = "patterns" => C9_DecimalRejectedAsHmsdms

\* C10: a call with both ra_only and dec_only raises.
C10_ExclusiveFlags ==
    (Done /\ coord \in FamBoundary /\ args.ra_only /\ args.dec_only) => ~Accepted

\* C11: a call whose input_format or output_format names no grammar raises,
\* whatever the input.
UnknownGrammar ==
    /\ Done /\ coord \in FamBoundary \cup FamDecimal
    /\ (args.input_format = "galactic" \/ args.output_format = "galactic")
C11_UnknownGrammarRejected == UnknownGrammar => ~Accepted
\* the same of src/coordinate_parser.py alone
C11_UnknownGrammarRejected_pat == impl = "patterns" => C11_UnknownGrammarRejected

\* C12: each axis is rendered with the caller's ra_precision / dec_precision
\* when given, else with the number of digits written after the decimal
\* point of that axis's seconds field (of the whole value for a plain
\* decimal); under 'degrees' output an override p >= 1 gives exactly p
\* digits after the point.
AfterPoint(t) == IF IndexOf(t, {"."}) = 0 THEN 0 ELSE Len(t) - IndexOf(t, {"."})
\* the two axes of '{ra_str}{ra_dec_delimiter}{dec_str}'
OutRa == SubSeq(result.out, 1, IndexOf(result.out, {args.ra_dec_delimiter[1]}) - 1)
OutDec ==
    Tail2(result.out, IndexOf(result.out, {args.ra_dec_delimiter[1]})
                      + Len(args.ra_dec_delimiter))
PrecisionCase ==
    /\ Done /\ impl = "parser" /\ Accepted
    /\ args.output_format \in {"degrees", "hmsdms"} /\ ~args.ra_only /\ ~args.dec_only
    /\ \/ /\ args.input_format \in {"hmsdms", "degrees"}
          /\ coord \in FamBoundary \cup FamDelims \cup FamDegTriples
          /\ coord.dstyle # "dotted"
       \/ args.input_format = "degrees" /\ coord \in FamDecimal
C12_WitnessInferred ==
    /\ PrecisionCase /\ args.output_format = "degrees"
    /\ args.ra_precision = NoPrecision
    /\ Write(coord) = Chars("18:04:20.99 -29:31:08.9")
    /\ result.out = Chars("271.09\t-29.5")

\* C13: under 'degrees' output with neither ra_precision nor dec_precision
\* given, every accepted call renders RA with 7 digits after the decimal
\* point and Dec with 6, whatever the precision of the input text.
DefaultDecimal ==
    /\ Done /\ Accepted /\ args.output_format = "degrees"
    /\ args.ra_precision = NoPrecision /\ args.dec_precision = NoPrecision
    /\ ~args.ra_only /\ ~args.dec_only
    /\ coord \in FamBoundary \cup FamDecimal /\ coord.dstyle # "dotted"
    /\ coord.gap = Chars(" ")
C13_DecimalDefaults == DefaultDecimal => AfterPoint(OutRa) = 7 /\ AfterPoint(OutDec) = 6
\* the same of src/coordinate_parser.py alone
C13_DecimalDefaults_pat == impl = "patterns" => C13_DecimalDefaults

\* C14: the seconds field degrees_to_hms and degrees_to_dms render has two
\* digits before the decimal point and exactly p digits after it (no point
\* when p = 0), and the hour/degree and minute fields have two digits:
\* 8.9 at p = 2 renders '08.90', 0 at p = 2 '00.00', 5 at p = 0 '05'.
Unsigned(t) == IF t # <<>> /\ t[1] \in SignCh THEN Tail2(t, 2) ELSE t
OutFields == re_split(Unsigned(result.out), {args.delimiter[1]})
Written3 == IF "ra" \in DOMAIN coord THEN coord.ra ELSE Tail2(coord.dec, 2)
TwoDigits(t) == Len(t) = 2 /\ AllDigits(t)
PaddedSeconds(t, p) ==
    IF p = 0 THEN TwoDigits(t)
    ELSE /\ Len(t) = 3 + p
         /\ TwoDigits(SubSeq(t, 1, 2))
         /\ t[3] = "."
         /\ AllDigits(Tail2(t, 4))
RenderCall(fns) == Done /\ impl \in fns
C14_SecondsPadded ==
    RenderCall({"degrees_to_hms", "degrees_to_dms", "degrees_to_hms_pat",
                "degrees_to_dms_pat"}) =>
       /\ Len(OutFields) = 3
       /\ TwoDigits(OutFields[1])
       /\ TwoDigits(OutFields[2])
       /\ PaddedSeconds(OutFields[3], args.precision)
       /\ (Written3[3] = Chars("08.9") /\ args.precision = 2)
          => OutFields[3] = Chars("08.90")
       /\ (Written3[3] = Chars("00") /\ args.precision = 2)
          => OutFields[3] = Chars("00.00")
       /\ (Written3[3] = Chars("05") /\ args.precision = 0)
          => OutFields[3] = Chars("05")
\* the same of src/python/coordinate_parser.py alone
C14_SecondsPadded_parser ==
    impl \in {"degrees_to_hms", "degrees_to_dms"} => C14_SecondsPadded

\* C15: the seconds field degrees_to_hms, degrees_to_dms and
\* degrees_to_casa_dec render denotes a value strictly below 60: seconds
\* that round up to 60 at the requested precision are never rendered as
\* '60' or '60.0..0' after the minute field.
WholePart(t) == IF IndexOf(t, {"."}) = 0 THEN t ELSE SubSeq(t, 1, IndexOf(t, {"."}) - 1)
C15_SecondsBelow60 ==
    RenderCall({"degrees_to_hms", "degrees_to_dms", "degrees_to_casa_dec"}) =>
       /\ Len(OutFields) >= 3
       /\ DigitsVal(WholePart(OutFields[3])) < 60

\* C16: an accepted input prefixed with an epoch marker 'J2000 ', 'j2000 ',
\* 'J2000.0 ', 'j2000.0 ', 'J 2000 ' or 'j 2000.0 ' gives exactly the output
\* of the input without the marker, under every input grammar.
\* the result of the call in progress on another input text
Again(text) ==
    LET a == [args EXCEPT !.input_string = text]
    IN IF impl = "parser" THEN Apply(a) ELSE ApplyPat(a)
Unmarked == Again(Write([coord EXCEPT !.prefix = <<>>]))
EpochCall == Done /\ coord \in FamEpoch
C16_EpochIgnored == (EpochCall /\ Unmarked.err = "") => result = Unmarked
C16_Witness ==
    /\ EpochCall /\ impl = "parser" /\ Unmarked.err = ""
    /\ args.input_string = Chars("j 2000.0 12:34:56 +45:23:45")
    /\ args.output_format = "hmsdms"
    /\ result.out = Chars("12:34:56.00\t+45:23:45.00")

\* C17: dms_to_degrees returns sign * (|d| + m/60 + s/3600), the sign being
\* the explicit leading sign of the degrees field (positive when absent),
\* for m and s in [0,60): '-00:30:00' is -0.5 degrees.
Magnitude(dec) ==
    DigitsVal(dec[2]) * 3600 * Scale + DigitsVal(dec[3]) * 60 * Scale + FieldVal(dec[4])
C17_SignFromText ==
    RenderCall({"dms_to_degrees", "dms_to_degrees_pat"}) =>
       /\ result.err = ""
       /\ ToInt(result.val) = IF coord.dec[1] = "-" THEN 0 - Magnitude(coord.dec)
                              ELSE Magnitude(coord.dec)
       /\ (args.d = Chars("-00") /\ args.m = Chars("30") /\ args.s = Chars("00"))
          => ToInt(result.val) = 0 - Unit \div 2
\* the same of src/python/coordinate_parser.py alone
C17_SignFromText_parser == impl = "dms_to_degrees" => C17_SignFromText

\* C18: degrees_to_casa_dec(value, p) returns exactly the string
\* degrees_to_dms(value, p, delimiter='.') returns, for every Dec value in
\* [-90,90] and every precision p >= 0.
C18_CasaIsDottedDms ==
    RenderCall({"degrees_to_casa_dec"}) =>
       result.out = degrees_to_dms(args.deg_val, args.precision, <<".">>)
\* the same at precision 0 alone
C18_CasaIsDottedDms_whole ==
    (RenderCall({"degrees_to_casa_dec"}) /\ args.precision = 0) => C18_CasaIsDottedDms

\* C19: under 'hmsdms' an input of six numeric tokens separated by colons,
\* whitespace or commas is accepted with the first three tokens as RA and the
\* last three as Dec, whether or not the fourth carries a sign:
\* '12 34 56 45 23 45' resolves like '12:34:56 +45:23:45'.
SixTokens == Done /\ args.input_format = "hmsdms" /\ coord \in FamSix
Signed == Plain("colon", coord.ra, [coord.dec EXCEPT ![1] = "+"])
C19_SixTokensAccepted == SixTokens => SameResolved(result, Again(Write(Signed)))
\* the same of src/coordinate_parser.py alone, space-delimited
C19_SixTokensAccepted_pat ==
    (impl = "patterns" /\ coord.rstyle = "space") => C19_SixTokensAccepted

\* C20: under 'hmsdms' an input with no RA field (one that starts with the
\* signed Dec) and an input with more than three sub-fields on an axis raise.
Malformed == Done /\ args.input_format = "hmsdms" /\ coord \in FamMalformed
C20_MalformedRejected == Malformed => ~Accepted
\* the same of src/coordinate_parser.py alone
C20_MalformedRejected_pat == impl = "patterns" => C20_MalformedRejected

\* C21: for every accepted 'hmsdms' input and every precision p, the string
\* returned with output_format='hmsdms', ':' inside an axis, whitespace
\* between the axes and ra_precision = dec_precision = p is itself accepted
\* under 'hmsdms', and converting it again with the same settings returns the
\* same string.
Normalized ==
    /\ Done /\ impl = "parser" /\ Accepted
    /\ args.input_format = "hmsdms" /\ args.output_format = "hmsdms"
    /\ ~args.ra_only /\ ~args.dec_only
    /\ args.ra_precision # NoPrecision /\ args.ra_precision = args.dec_precision
C21_NormalizeIdempotent ==
    Normalized => Again(result.out).err = "" /\ Again(result.out).out = result.out
\* the same where no seconds field rounds up to 60
C21_NormalizeIdempotent_below60 ==
    (/\ Normalized
     /\ SubSeq(OutRa, 7, 8) # Chars("60")
     /\ SubSeq(OutDec, 8, 9) # Chars("60"))
    => C21_NormalizeIdempotent


=============================================================================
